---------------------------- MODULE Spec2Model ----------------------------
(***************************************************************************)
(* Model of scripts/commit_and_push.py: the commit-and-push helper.        *)
(*                                                                         *)
(* Text is modelled as sequences of one-character strings.  File contents  *)
(* are sequences of bytes; the bytes 0xC2 and 0x85 are written "0xC2" and  *)
(* "0x85" (together they are the UTF-8 encoding of U+0085, a line          *)
(* boundary for str.splitlines; apart they are not valid UTF-8).           *)
(* Path.write_text is modelled for a POSIX build (os.linesep = "\n"), the  *)
(* platform the script's shebang and usage text address.                   *)
(***************************************************************************)
EXTENDS Integers, Sequences, FiniteSets, TLC

VARIABLES
    pc,              \* position in main
    dry_run,         \* args.dry_run
    message,         \* args.message
    FILES_TO_STAGE,  \* the allowlist (an input of the run, see AllowLists)
    disk,            \* working tree: path -> [kind, bytes]
    disk0,           \* the working tree when the run started
    i,               \* normalize_files: index of the next file
    changed,         \* normalize_files: the changed list
    writes,          \* paths written by path.write_text, in order
    normRuns,        \* completed calls of normalize_files
    p,               \* the last CompletedProcess: [returncode, stdout]
    index,           \* git's staging area: the set of staged names
    staged_now,      \* main: staged_now
    calls,           \* external commands run so far: [cmd, arg, rc, out]
    exitCode         \* the process's exit status once pc = "exited"

vars == <<pc, dry_run, message, FILES_TO_STAGE, disk, disk0, i, changed,
          writes, normRuns, p, index, staged_now, calls, exitCode>>

---------------------------------------------------------------------------
(* Bounds *)

\* Longest file content (in bytes) enumerated for normalize_text_file.
MaxLen == 4

---------------------------------------------------------------------------
(* Text helpers: Python's str / bytes methods *)

Range(s) == {s[k] : k \in 1..Len(s)}

\* str.startswith(prefix)
StartsWith(s, prefix) ==
    /\ Len(prefix) <= Len(s)
    /\ SubSeq(s, 1, Len(prefix)) = prefix

\* s.endswith("\n")
EndsWithLF(s) == Len(s) > 0 /\ s[Len(s)] = "\n"

\* Characters str.strip() removes (str.isspace) within the model's alphabet.
Whitespace == {" ", "\t", "\n", "\r", "\f", "U+0085"}

RECURSIVE RStrip(_, _)
\* str.rstrip(chars)
RStrip(s, chars) ==
    IF s # <<>> /\ s[Len(s)] \in chars
    THEN RStrip(SubSeq(s, 1, Len(s) - 1), chars)
    ELSE s

RECURSIVE LStrip(_, _)
\* str.lstrip(chars)
LStrip(s, chars) ==
    IF s # <<>> /\ s[1] \in chars THEN LStrip(Tail(s), chars) ELSE s

\* str.strip()
Strip(s) == LStrip(RStrip(s, Whitespace), Whitespace)

\* Line boundaries of str.splitlines within the model's alphabet.
LineBreaks == {"\n", "\r", "\f", "U+0085"}

RECURSIVE FirstBreak(_, _)
\* Index of the first line boundary of s at or after k, or Len(s) + 1.
FirstBreak(s, k) ==
    IF k > Len(s) \/ s[k] \in LineBreaks THEN k ELSE FirstBreak(s, k + 1)

RECURSIVE SplitLines(_, _)
\* str.splitlines(keepends): "\r\n" is one boundary; no empty last line.
SplitLines(s, keepends) ==
    IF s = <<>> THEN <<>>
    ELSE LET b   == FirstBreak(s, 1)
             nxt == IF b > Len(s) THEN b
                    ELSE IF s[b] = "\r" /\ b + 1 <= Len(s) /\ s[b + 1] = "\n"
                         THEN b + 2
                         ELSE b + 1
             eol == IF keepends THEN nxt - 1 ELSE b - 1
         IN  <<SubSeq(s, 1, eol)>> \o SplitLines(SubSeq(s, nxt, Len(s)), keepends)

RECURSIVE Join(_)
\* "".join(lines)
Join(lines) == IF lines = <<>> THEN <<>> ELSE Head(lines) \o Join(Tail(lines))

RECURSIVE ReplaceCRLF(_)
\* raw.replace(b"\r\n", b"\n")
ReplaceCRLF(raw) ==
    IF raw = <<>> THEN <<>>
    ELSE IF Len(raw) >= 2 /\ raw[1] = "\r" /\ raw[2] = "\n"
         THEN <<"\n">> \o ReplaceCRLF(SubSeq(raw, 3, Len(raw)))
         ELSE <<raw[1]>> \o ReplaceCRLF(Tail(raw))

RECURSIVE ValidUtf8(_)
\* Whether bytes.decode("utf-8") succeeds: 0xC2 leads a two-byte sequence
\* and needs the continuation byte 0x85; a lone 0x85 is invalid.
ValidUtf8(raw) ==
    IF raw = <<>> THEN TRUE
    ELSE IF raw[1] = "0xC2"
         THEN Len(raw) >= 2 /\ raw[2] = "0x85" /\ ValidUtf8(SubSeq(raw, 3, Len(raw)))
         ELSE raw[1] # "0x85" /\ ValidUtf8(Tail(raw))

RECURSIVE Decode(_)
\* bytes.decode("utf-8") of valid input
Decode(raw) ==
    IF raw = <<>> THEN <<>>
    ELSE IF raw[1] = "0xC2"
         THEN <<"U+0085">> \o Decode(SubSeq(raw, 3, Len(raw)))
         ELSE <<raw[1]>> \o Decode(Tail(raw))

RECURSIVE Encode(_)
\* str.encode("utf-8")
Encode(text) ==
    IF text = <<>> THEN <<>>
    ELSE IF text[1] = "U+0085"
         THEN <<"0xC2", "0x85">> \o Encode(Tail(text))
         ELSE <<text[1]>> \o Encode(Tail(text))

---------------------------------------------------------------------------
(* normalize_text_file *)

\* Mutant: carriage returns are not stripped.
StripChars_no_cr == {" ", "\t", "\n"}

\* The characters the cleaning loop strips from a line's end.
StripChars == {" ", "\t", "\r", "\n"}

\* Mutant: a line-feed is appended to every line.
CleanLine_always_lf(ln) == RStrip(ln, {" ", "\t", "\r", "\n"}) \o <<"\n">>

\* One iteration of the loop over lines.
CleanLine(ln) ==
    IF EndsWithLF(ln)
    THEN RStrip(ln, StripChars) \o <<"\n">>
    ELSE RStrip(ln, StripChars)

RECURSIVE CleanLines(_)
CleanLines(lines) ==
    IF lines = <<>> THEN <<>>
    ELSE <<CleanLine(Head(lines))>> \o CleanLines(Tail(lines))

\* cleaned, for a file whose bytes decode
Cleaned(raw) == Join(CleanLines(SplitLines(Decode(ReplaceCRLF(raw)), TRUE)))

\* not path.exists() or not path.is_file()
SkipsPath(f) == f.kind # "file"

\* Result of normalize_text_file on file f: the value returned, whether
\* path.write_text ran, and the file afterwards.
normalize_text_file(f) ==
    IF SkipsPath(f) THEN [ret |-> FALSE, wrote |-> FALSE, file |-> f]
    ELSE IF ~ValidUtf8(ReplaceCRLF(f.bytes))
         THEN [ret |-> FALSE, wrote |-> FALSE, file |-> f]
    ELSE IF Encode(Cleaned(f.bytes)) # f.bytes
         THEN [ret |-> TRUE, wrote |-> TRUE,
               file |-> [kind |-> "file", bytes |-> Encode(Cleaned(f.bytes))]]
         ELSE [ret |-> FALSE, wrote |-> FALSE, file |-> f]

\* for rel in files: if normalize_text_file(Path(rel)): changed.append(rel)
\* One iteration, on the file at position i.
NormalizeFile ==
    /\ pc = "normalize"
    /\ i <= Len(FILES_TO_STAGE)
    /\ LET rel == FILES_TO_STAGE[i]
           r   == normalize_text_file(disk[rel])
       IN  /\ disk' = [disk EXCEPT ![rel] = r.file]
           /\ writes' = IF r.wrote THEN Append(writes, rel) ELSE writes
           /\ changed' = IF r.ret THEN Append(changed, rel) ELSE changed
    /\ i' = i + 1
    /\ UNCHANGED <<pc, dry_run, message, FILES_TO_STAGE, disk0, normRuns, p,
                   index, staged_now, calls, exitCode>>

\* normalize_files returns; main prints the changed list.
NormalizeDone ==
    /\ pc = "normalize"
    /\ i > Len(FILES_TO_STAGE)
    /\ normRuns' = normRuns + 1
    /\ pc' = "diff_check"
    /\ UNCHANGED <<dry_run, message, FILES_TO_STAGE, disk, disk0, i, changed,
                   writes, p, index, staged_now, calls, exitCode>>

---------------------------------------------------------------------------
(* Paths, inputs and the external tool *)

EnvFile  == <<".", "e", "n", "v">>
EnvLocal == <<".", "e", "n", "v", ".", "l", "o", "c", "a", "l">>
DataDir  == <<"s", "e", "r", "v", "e", "r", "/", "d", "a", "t", "a">>
DataFile == DataDir \o <<"/", "x">>
SrcA     == <<"a", ".", "t", "s">>
SrcB     == <<"b", ".", "t", "s">>

FORBIDDEN_PATH_PREFIXES == <<EnvFile, DataDir \o <<"/">> >>

\* Mutant: equality with a prefix instead of startswith.
is_forbidden_path_exact(rel) ==
    \E k \in 1..Len(FORBIDDEN_PATH_PREFIXES) : rel = FORBIDDEN_PATH_PREFIXES[k]

\* rel.startswith(FORBIDDEN_PATH_PREFIXES)
is_forbidden_path(rel) ==
    \E k \in 1..Len(FORBIDDEN_PATH_PREFIXES) :
        StartsWith(rel, FORBIDDEN_PATH_PREFIXES[k])

\* The default of --message, abbreviated: several lines, ending in "\n".
DEFAULT_MESSAGE == <<"F", "i", "x", "\n", "\n", "-", "\n">>

\* Values of --message.
Messages == {DEFAULT_MESSAGE, <<>>, <<" ", " ", " ">>, <<" ", "m", "\t">>}

\* Values of the allowlist: safe lists, and lists holding a forbidden path.
AllowLists == {<<SrcA, SrcB>>, <<DataDir, SrcA>>, <<SrcA, EnvFile>>,
               <<DataFile, SrcB>>}

\* Files of the working tree at the allowlisted paths.
Missing   == [kind |-> "missing", bytes |-> <<>>]
CleanFile == [kind |-> "file", bytes |-> <<"a", "\n">>]
DirtyFile == [kind |-> "file", bytes |-> <<"a", " ", "\r", "\n">>]
TreeFiles == {Missing, CleanFile, DirtyFile}

\* Exit statuses of an external command (negative: killed by a signal, as
\* subprocess reports it).
RetCodes == {0, 1, 2, 128, -9}

\* Captured output of `git rev-parse --show-toplevel`.
ToplevelOutputs == {<<>>, <<"\n">>, <<"/", "r", "\n">>}

\* Captured output of `git diff --check`.
DiffCheckOutputs == {<<>>, <<" ", "\n">>, <<"a", ":", "1", "\n">>}

\* Captured output of `git rev-parse --abbrev-ref HEAD`.
BranchOutputs == {<<>>, <<"\n">>, <<"m", "\n">>}

\* Names staged before the run, and names a hook may stage besides the
\* allowlist.
PreStaged == {EnvLocal, SrcA}
HookStaged == {DataFile}

\* The order `git diff --name-only` lists names in.
NameOrder == <<EnvFile, EnvLocal, SrcA, SrcB, DataDir, DataFile>>

RECURSIVE NameOnlyFrom(_, _)
NameOnlyFrom(S, k) ==
    IF k > Len(NameOrder) THEN <<>>
    ELSE (IF NameOrder[k] \in S THEN NameOrder[k] \o <<"\n">> ELSE <<>>)
         \o NameOnlyFrom(S, k + 1)

\* stdout of `git diff --name-only --cached` for staging area S
NameOnlyOutput(S) == NameOnlyFrom(S, 1)

---------------------------------------------------------------------------
(* run, and the ways the process ends *)

\* Exit status of the process for SystemExit(code) with an integer code.
ExitStatus(code) == code % 256

\* Exit status of the process for SystemExit(message) with a string.
StrExitStatus == 1

\* raise SystemExit(code) / return code from main
Exit(code) ==
    /\ pc' = "exited"
    /\ exitCode' = ExitStatus(code)

\* run: subprocess.run(cmd) completes with (rc, out)
run(cmd, arg, rc, out) ==
    /\ calls' = Append(calls, [cmd |-> cmd, arg |-> arg, rc |-> rc, out |-> out])
    /\ p' = [returncode |-> rc, stdout |-> out]

\* Mutant: only a positive return code raises.
RunRaises_positive(check, rc) == check /\ rc > 0

\* run: if check and p.returncode != 0: raise SystemExit(p.returncode)
RunRaises(check, rc) == check /\ rc # 0

---------------------------------------------------------------------------
(* main *)

\* root = repo_root(); os.chdir(root)
RepoRoot ==
    /\ pc = "repo_root"
    /\ \E rc \in RetCodes, out \in ToplevelOutputs :
        /\ run("rev-parse --show-toplevel", <<>>, rc, out)
        /\ IF RunRaises(TRUE, rc) THEN Exit(rc)
           ELSE IF Strip(out) = <<>> THEN Exit(StrExitStatus)
           ELSE pc' = "safety" /\ UNCHANGED exitCode
    /\ UNCHANGED <<dry_run, message, FILES_TO_STAGE, disk, disk0, i, changed,
                   writes, normRuns, index, staged_now>>

\* for f in FILES_TO_STAGE: if is_forbidden_path(f): raise SystemExit(str)
SafetyCheck ==
    /\ pc = "safety"
    /\ IF \E k \in 1..Len(FILES_TO_STAGE) : is_forbidden_path(FILES_TO_STAGE[k])
       THEN Exit(StrExitStatus)
       ELSE pc' = "normalize" /\ UNCHANGED exitCode
    /\ UNCHANGED <<dry_run, message, FILES_TO_STAGE, disk, disk0, i, changed,
                   writes, normRuns, p, index, staged_now, calls>>

\* Mutant: `and` for `or`.
WhitespaceErrors_and(rc, out) == rc # 0 /\ Strip(out) # <<>>

\* if p.returncode != 0 or (p.stdout or "").strip():
WhitespaceErrors(rc, out) == rc # 0 \/ Strip(out) # <<>>

\* p = run(["git", "diff", "--check"], check=False, capture=True)
DiffCheck ==
    /\ pc = "diff_check"
    /\ \E rc \in RetCodes, out \in DiffCheckOutputs :
        /\ run("diff --check", <<>>, rc, out)
        /\ IF RunRaises(FALSE, rc) THEN Exit(rc)
           ELSE IF WhitespaceErrors(rc, out) THEN Exit(2)
           ELSE pc' = "add" /\ UNCHANGED exitCode
    /\ UNCHANGED <<dry_run, message, FILES_TO_STAGE, disk, disk0, i, changed,
                   writes, normRuns, index, staged_now>>

\* run(["git", "add", "--"] + FILES_TO_STAGE)
GitAdd ==
    /\ pc = "add"
    /\ \E rc \in RetCodes, added \in SUBSET (Range(FILES_TO_STAGE) \cup HookStaged) :
        /\ run("add", <<>>, rc, <<>>)
        /\ IF RunRaises(TRUE, rc)
           THEN Exit(rc) /\ UNCHANGED index
           ELSE /\ index' = index \cup added
                /\ pc' = "staged_query"
                /\ UNCHANGED exitCode
    /\ UNCHANGED <<dry_run, message, FILES_TO_STAGE, disk, disk0, i, changed,
                   writes, normRuns, staged_now>>

\* Mutant: stdout.split("\n"), which ends with an empty string.
staged_names_split(out) == SplitLines(out, FALSE) \o << <<>> >>

\* run(...).stdout.splitlines()
staged_names(out) == SplitLines(out, FALSE)

\* staged_now = run([... "--name-only", "--cached"], capture=True)
\*                  .stdout.splitlines(); if not staged_now: return 0
StagedQuery ==
    /\ pc = "staged_query"
    /\ \E rc \in RetCodes :
        /\ run("diff --name-only --cached", <<>>, rc, NameOnlyOutput(index))
        /\ IF RunRaises(TRUE, rc)
           THEN Exit(rc) /\ UNCHANGED staged_now
           ELSE /\ staged_now' = staged_names(NameOnlyOutput(index))
                /\ IF staged_now' = <<>> THEN Exit(0)
                   ELSE pc' = "verify_staged" /\ UNCHANGED exitCode
    /\ UNCHANGED <<dry_run, message, FILES_TO_STAGE, disk, disk0, i, changed,
                   writes, normRuns, index>>

\* Mutant: only the first staged name is examined.
forbidden_first_only == SelectSeq(SubSeq(staged_now, 1, 1), is_forbidden_path)

\* forbidden = [f for f in staged_now if is_forbidden_path(f)]
forbidden == SelectSeq(staged_now, is_forbidden_path)

\* if forbidden: ...; return 3
VerifyStaged ==
    /\ pc = "verify_staged"
    /\ IF forbidden # <<>> THEN Exit(3)
       ELSE pc' = "dry_run" /\ UNCHANGED exitCode
    /\ UNCHANGED <<dry_run, message, FILES_TO_STAGE, disk, disk0, i, changed,
                   writes, normRuns, p, index, staged_now, calls>>

\* Mutant: the dry-run branch does not return after `git status`.
DryRun_no_return ==
    /\ pc = "dry_run"
    /\ dry_run
    /\ \E rc \in RetCodes :
        /\ run("status", <<>>, rc, <<>>)
        /\ IF RunRaises(TRUE, rc) THEN Exit(rc)
           ELSE IF Strip(message) = <<>> THEN Exit(4)
           ELSE pc' = "commit" /\ UNCHANGED exitCode
    /\ UNCHANGED <<dry_run, message, FILES_TO_STAGE, disk, disk0, i, changed,
                   writes, normRuns, index, staged_now>>

\* if args.dry_run: run(["git", "status"]); return 0
DryRun ==
    /\ pc = "dry_run"
    /\ dry_run
    /\ \E rc \in RetCodes :
        /\ run("status", <<>>, rc, <<>>)
        /\ IF RunRaises(TRUE, rc) THEN Exit(rc) ELSE Exit(0)
    /\ UNCHANGED <<dry_run, message, FILES_TO_STAGE, disk, disk0, i, changed,
                   writes, normRuns, index, staged_now>>

\* Mutant: the message is not stripped.
msg_unstripped == message

\* msg = args.message.strip()
msg == Strip(message)

\* if not msg: ...; return 4
CheckMessage ==
    /\ pc = "dry_run"
    /\ ~dry_run
    /\ IF msg = <<>> THEN Exit(4)
       ELSE pc' = "commit" /\ UNCHANGED exitCode
    /\ UNCHANGED <<dry_run, message, FILES_TO_STAGE, disk, disk0, i, changed,
                   writes, normRuns, p, index, staged_now, calls>>

\* run(["git", "commit", "-m", msg])
Commit ==
    /\ pc = "commit"
    /\ \E rc \in RetCodes :
        /\ run("commit", msg, rc, <<>>)
        /\ IF RunRaises(TRUE, rc)
           THEN Exit(rc) /\ UNCHANGED index
           ELSE /\ index' = {}
                /\ pc' = "branch"
                /\ UNCHANGED exitCode
    /\ UNCHANGED <<dry_run, message, FILES_TO_STAGE, disk, disk0, i, changed,
                   writes, normRuns, staged_now>>

\* Mutant: the empty-branch exit reuses the empty-message code.
Branch_wrong_code ==
    /\ pc = "branch"
    /\ \E rc \in RetCodes, out \in BranchOutputs :
        /\ run("rev-parse --abbrev-ref HEAD", <<>>, rc, out)
        /\ IF RunRaises(TRUE, rc) THEN Exit(rc)
           ELSE IF Strip(out) = <<>> THEN Exit(4)
           ELSE pc' = "push" /\ UNCHANGED exitCode
    /\ UNCHANGED <<dry_run, message, FILES_TO_STAGE, disk, disk0, i, changed,
                   writes, normRuns, index, staged_now>>

\* branch = run([... "--abbrev-ref", "HEAD"], capture=True).stdout.strip()
branch == Strip(p.stdout)

\* if not branch: ...; return 5
Branch ==
    /\ pc = "branch"
    /\ \E rc \in RetCodes, out \in BranchOutputs :
        /\ run("rev-parse --abbrev-ref HEAD", <<>>, rc, out)
        /\ IF RunRaises(TRUE, rc) THEN Exit(rc)
           ELSE IF Strip(out) = <<>> THEN Exit(5)
           ELSE pc' = "push" /\ UNCHANGED exitCode
    /\ UNCHANGED <<dry_run, message, FILES_TO_STAGE, disk, disk0, i, changed,
                   writes, normRuns, index, staged_now>>

\* run(["git", "push", "origin", branch]); print("Done."); return 0
Push ==
    /\ pc = "push"
    /\ \E rc \in RetCodes :
        /\ run("push", branch, rc, <<>>)
        /\ IF RunRaises(TRUE, rc) THEN Exit(rc) ELSE Exit(0)
    /\ UNCHANGED <<dry_run, message, FILES_TO_STAGE, disk, disk0, i, changed,
                   writes, normRuns, index, staged_now>>

---------------------------------------------------------------------------
(* Specifications *)

\* A run of main: the arguments, the allowlist, the working tree and the
\* staging area are the run's inputs.
Init ==
    /\ pc = "repo_root"
    /\ dry_run \in BOOLEAN
    /\ message \in Messages
    /\ FILES_TO_STAGE \in AllowLists
    /\ disk \in [Range(FILES_TO_STAGE) -> TreeFiles]
    /\ disk0 = disk
    /\ i = 1
    /\ changed = <<>>
    /\ writes = <<>>
    /\ normRuns = 0
    /\ p = [returncode |-> 0, stdout |-> <<>>]
    /\ index \in SUBSET PreStaged
    /\ staged_now = <<>>
    /\ calls = <<>>
    /\ exitCode = 0

Next ==
    \/ RepoRoot
    \/ SafetyCheck
    \/ NormalizeFile
    \/ NormalizeDone
    \/ DiffCheck
    \/ GitAdd
    \/ StagedQuery
    \/ VerifyStaged
    \/ DryRun
    \/ CheckMessage
    \/ Commit
    \/ Branch
    \/ Push

Spec == Init /\ [][Next]_vars

\* Bytes of the enumerated file contents.
ByteAlphabet == {"\r", "\n", " ", "\t", "a", "\f", "0xC2", "0x85"}

\* Every content of at most MaxLen bytes.
Contents == UNION {[1..n -> ByteAlphabet] : n \in 0..MaxLen}

\* What a path given to normalize_text_file may name.
Directory == [kind |-> "dir", bytes |-> <<>>]
PathStates == {Missing, Directory} \cup {[kind |-> "file", bytes |-> b] : b \in Contents}

\* normalize_files on a one-path list, for every state of that path.
InitNorm ==
    /\ pc = "normalize"
    /\ dry_run = FALSE
    /\ message = DEFAULT_MESSAGE
    /\ FILES_TO_STAGE = <<SrcA>>
    /\ disk \in [{SrcA} -> PathStates]
    /\ disk0 = disk
    /\ i = 1
    /\ changed = <<>>
    /\ writes = <<>>
    /\ normRuns = 0
    /\ p = [returncode |-> 0, stdout |-> <<>>]
    /\ index = {}
    /\ staged_now = <<>>
    /\ calls = <<>>
    /\ exitCode = 0

NextNorm ==
    \/ NormalizeFile
    \/ NormalizeDone

SpecNorm == InitNorm /\ [][NextNorm]_vars


---------------------------------------------------------------------------
(* Vocabulary of the properties, stated on what a run can be observed to   *)
(* do: the commands it ran, their results, the files and the exit status.  *)

Cmds == {calls[k].cmd : k \in 1..Len(calls)}

LastCall == calls[Len(calls)]

\* A name starting with ".env" or with "server/data/".
NameIsForbidden(n) ==
    \/ StartsWith(n, <<".", "e", "n", "v">>)
    \/ StartsWith(n, <<"s", "e", "r", "v", "e", "r", "/", "d", "a", "t", "a", "/">>)

\* Text holding a character that is not whitespace.
NonBlank(t) == \E k \in 1..Len(t) : t[k] \notin {" ", "\t", "\n", "\r", "\f"}

\* The commands run with check=True.
MustSucceed == {"rev-parse --show-toplevel", "add", "diff --name-only --cached",
                "status", "commit", "rev-parse --abbrev-ref HEAD", "push"}

\* The staged-names query succeeded and listed these names.
StagedListed == \E k \in 1..Len(calls) :
    /\ calls[k].cmd = "diff --name-only --cached"
    /\ calls[k].rc = 0

StagedForbidden ==
    /\ StagedListed
    /\ \E k \in 1..Len(staged_now) : NameIsForbidden(staged_now[k])

\* C1: once the names listed by `git diff --name-only --cached` hold a
\* forbidden name, that query stays the last command the run invoked, the
\* staging area stays what the query listed, and a run that has ended has
\* ended with exit code 3 (dry run or not, whatever the message).
C1_ForbiddenStagedAborts ==
    StagedForbidden =>
        /\ pc \in {"verify_staged", "exited"}
        /\ LastCall.cmd = "diff --name-only --cached"
        /\ index = Range(staged_now)
        /\ pc = "exited" => exitCode = 3

C1_Witness ==
    /\ pc = "exited"
    /\ StagedForbidden
    /\ dry_run
    /\ message = <<>>
    /\ EnvLocal \in Range(staged_now)
    /\ SrcA \in Range(staged_now)

AllowlistForbidden ==
    \E k \in 1..Len(FILES_TO_STAGE) : NameIsForbidden(FILES_TO_STAGE[k])

\* C2: with a forbidden path anywhere in the allowlist the run never gets
\* past the pre-stage check: no file is written, normalize_files is not
\* entered, none of diff --check, add, commit, push is invoked, and the run
\* ends with a non-zero status.
C2_ForbiddenAllowlistAbortsEarly ==
    AllowlistForbidden =>
        /\ pc \in {"repo_root", "safety", "exited"}
        /\ disk = disk0
        /\ writes = <<>>
        /\ i = 1 /\ changed = <<>> /\ normRuns = 0
        /\ Cmds \subseteq {"rev-parse --show-toplevel"}
        /\ pc = "exited" => exitCode # 0

C2_Witness ==
    /\ pc = "exited"
    /\ FILES_TO_STAGE = <<SrcA, EnvFile>>
    /\ LastCall.rc = 0
    /\ NonBlank(LastCall.out)
    /\ disk[SrcA] = DirtyFile

\* C3: a dry run never invokes commit or push; and a dry run that reaches
\* its `git status` has normalized the files once and has invoked
\* `git diff --check` and `git add`.
C3_DryRunNoCommitNoPush ==
    dry_run =>
        /\ "commit" \notin Cmds
        /\ "push" \notin Cmds
        /\ (pc = "dry_run" \/ "status" \in Cmds) =>
              /\ normRuns = 1
              /\ \A rel \in Range(FILES_TO_STAGE) :
                    disk[rel] = normalize_text_file(disk0[rel]).file
              /\ {"diff --check", "add"} \subseteq Cmds

C3_Witness ==
    /\ dry_run
    /\ pc = "exited"
    /\ LastCall.cmd = "status"
    /\ LastCall.rc = 0
    /\ writes # <<>>
    /\ index # {}

\* C4: a must-succeed command that returns a non-zero status is the last
\* command of the run, the run has ended with a non-zero status, which is
\* the command's own whenever that is an exit status (1..255); and no
\* command is invoked twice.
C4_MustSucceedFailFast ==
    /\ \A k \in 1..Len(calls) :
          (calls[k].cmd \in MustSucceed /\ calls[k].rc # 0) =>
              /\ k = Len(calls)
              /\ pc = "exited"
              /\ exitCode # 0
              /\ calls[k].rc \in 1..255 => exitCode = calls[k].rc
    /\ \A j, k \in 1..Len(calls) : j # k => calls[j].cmd # calls[k].cmd

C4_Witness ==
    /\ pc = "exited"
    /\ LastCall.cmd = "commit"
    /\ LastCall.rc = 128
    /\ exitCode = 128

\* `git diff --check` returned a non-zero status or non-blank output.
WhitespaceGateFailed == \E k \in 1..Len(calls) :
    /\ calls[k].cmd = "diff --check"
    /\ (calls[k].rc # 0 \/ NonBlank(calls[k].out))

\* C5: when `git diff --check` returns a non-zero status or non-blank
\* output, the run has ended with exit code 2, add, commit and push were
\* not invoked, normalization ran exactly once, and the files it rewrote
\* are as it left them.
C5_WhitespaceGate ==
    WhitespaceGateFailed =>
        /\ pc = "exited"
        /\ exitCode = 2
        /\ LastCall.cmd = "diff --check"
        /\ Cmds \cap {"add", "commit", "push"} = {}
        /\ normRuns = 1
        /\ \A rel \in Range(FILES_TO_STAGE) :
              disk[rel] = normalize_text_file(disk0[rel]).file
        /\ \A k \in 1..Len(changed) : disk[changed[k]] # disk0[changed[k]]

C5_Witness ==
    /\ WhitespaceGateFailed
    /\ LastCall.rc = 0
    /\ changed # <<>>
    /\ exitCode = 2

\* C6: git commit is only ever given a message with a non-whitespace
\* character; and a run that is not a dry run, whose staged names are
\* non-empty and hold no forbidden name, and whose message is blank, has
\* (once through the message check) ended with exit code 4 with neither
\* commit nor push invoked.
C6_EmptyMessage ==
    /\ \A k \in 1..Len(calls) : calls[k].cmd = "commit" => NonBlank(calls[k].arg)
    /\ ( /\ ~dry_run
         /\ StagedListed /\ staged_now # <<>> /\ ~StagedForbidden
         /\ ~NonBlank(message)
         /\ pc \notin {"verify_staged", "dry_run"} ) =>
            /\ pc = "exited"
            /\ exitCode = 4
            /\ Cmds \cap {"commit", "push"} = {}

C6_Witness ==
    /\ ~dry_run
    /\ message = <<" ", " ", " ">>
    /\ StagedListed /\ staged_now # <<>> /\ ~StagedForbidden
    /\ pc = "exited"
    /\ exitCode = 4

\* The staged-names query succeeded with empty output.
NothingStaged == \E k \in 1..Len(calls) :
    /\ calls[k].cmd = "diff --name-only --cached"
    /\ calls[k].rc = 0
    /\ calls[k].out = <<>>

\* C7: when the staged-names query after git add returns nothing, the run
\* has ended with exit code 0, that query being its last command: no
\* commit, no push (dry run or not, whatever the message).
C7_NothingStagedExitsZero ==
    NothingStaged =>
        /\ pc = "exited"
        /\ exitCode = 0
        /\ LastCall.cmd = "diff --name-only --cached"
        /\ Cmds \cap {"commit", "push", "status"} = {}

C7_Witness ==
    /\ NothingStaged
    /\ ~dry_run
    /\ message = <<>>
    /\ "add" \in Cmds
    /\ pc = "exited"

---------------------------------------------------------------------------
(* normalize_text_file on one path (SpecNorm) *)

\* The path's bytes before and after normalize_files.
rawBefore == disk0[SrcA].bytes
rawAfter == disk[SrcA].bytes

\* normalize_text_file has been applied to a regular file.
NormalizedFile == i > 1 /\ disk0[SrcA].kind = "file"

HasCRLF(b) == \E k \in 1..(Len(b) - 1) : b[k] = "\r" /\ b[k + 1] = "\n"

FileEndsWithLF(b) == b # <<>> /\ b[Len(b)] = "\n"

\* b has a line-feed, and only spaces, tabs and carriage returns after
\* its last one (nothing, when b ends with a line-feed).
OnlyBlankAfterLastLF(b) == \E k \in 1..Len(b) :
    /\ b[k] = "\n"
    /\ \A j \in (k + 1)..Len(b) : b[j] \in {" ", "\t", "\r"}

\* C8 as stated: a file containing CRLF holds none after normalization and
\* ends with a line-feed exactly if it did before.
C8_AsStated ==
    (NormalizedFile /\ HasCRLF(rawBefore)) =>
        /\ ~HasCRLF(rawAfter)
        /\ FileEndsWithLF(rawAfter) <=> FileEndsWithLF(rawBefore)

\* C8, amended: a file containing CRLF that decodes as UTF-8 holds no CRLF
\* after normalization; if it ended with a line-feed it still does, and it
\* ends with a line-feed afterwards exactly when only spaces, tabs and
\* carriage returns followed its last line-feed.  A file containing CRLF
\* that is not valid UTF-8 keeps its bytes.
C8_CRLFRemovedWhenUtf8 ==
    (NormalizedFile /\ HasCRLF(rawBefore)) =>
        IF ValidUtf8(rawBefore)
        THEN /\ ~HasCRLF(rawAfter)
             /\ FileEndsWithLF(rawBefore) => FileEndsWithLF(rawAfter)
             /\ FileEndsWithLF(rawAfter) <=> OnlyBlankAfterLastLF(rawBefore)
        ELSE rawAfter = rawBefore

C8_Witness ==
    /\ NormalizedFile
    /\ rawBefore = <<"a", "\r", "\n", "a">>
    /\ rawAfter = <<"a", "\n", "a">>
    /\ changed = <<SrcA>>

\* LF-only, no trailing whitespace: no carriage return, and no space or
\* tab right before a line-feed or at the end.
AlreadyClean(b) ==
    /\ \A k \in 1..Len(b) : b[k] # "\r"
    /\ \A k \in 1..Len(b) :
          b[k] \in {" ", "\t"} => (k < Len(b) /\ b[k + 1] # "\n")

\* C9: for a path that is missing or no regular file, a file that is not
\* valid UTF-8, and a file already LF-only without trailing whitespace,
\* normalize_text_file returns False (the path is not in changed), writes
\* nothing and leaves the bytes as they were.
C9_CleanFileUntouched ==
    ( /\ i > 1
      /\ \/ disk0[SrcA].kind # "file"
         \/ ~ValidUtf8(rawBefore)
         \/ AlreadyClean(rawBefore) ) =>
        /\ changed = <<>>
        /\ writes = <<>>
        /\ disk = disk0

C9_Witness ==
    /\ NormalizedFile
    /\ rawBefore = <<" ", "a", "\n", "a">>
    /\ pc = "diff_check"

---------------------------------------------------------------------------
(* Exit codes *)

Exited == pc = "exited"

\* How a run that has ended failed, read off its last command and inputs.
CommandFailed == LastCall.cmd \in MustSucceed /\ LastCall.rc # 0

NotRepository ==
    /\ LastCall.cmd = "rev-parse --show-toplevel"
    /\ LastCall.rc = 0
    /\ ~NonBlank(LastCall.out)

AllowlistRefused ==
    /\ LastCall.cmd = "rev-parse --show-toplevel"
    /\ LastCall.rc = 0
    /\ NonBlank(LastCall.out)
    /\ AllowlistForbidden

StagedRefused == LastCall.cmd = "diff --name-only --cached" /\ StagedForbidden

EmptyMessage ==
    /\ LastCall.cmd = "diff --name-only --cached"
    /\ LastCall.rc = 0
    /\ staged_now # <<>> /\ ~StagedForbidden
    /\ ~dry_run
    /\ ~NonBlank(message)

NoBranch ==
    /\ LastCall.cmd = "rev-parse --abbrev-ref HEAD"
    /\ LastCall.rc = 0
    /\ ~NonBlank(LastCall.out)

DetectedError ==
    \/ NotRepository \/ AllowlistRefused \/ WhitespaceGateFailed
    \/ StagedRefused \/ EmptyMessage \/ NoBranch

=============================================================================
